---- MODULE Spec2Model ----
(***************************************************************************)
(* A model of hypertree's Source (src/source.py) and Node (src/node.py):   *)
(* the dataset store, region nodes with their bounding boxes, the greedy   *)
(* and manual split of a node, depth-first and best-first tree growth,     *)
(* the reconstruction of a tree from a dictionary, and node membership.    *)
(*                                                                         *)
(* Conventions.                                                            *)
(*  - Python indices start at 0, the model's at 1: rows are 1..NumSamples, *)
(*    dimensions are the elements of Dims, split point i of the code       *)
(*    (i samples on the left) is kept as the number i.                     *)
(*  - A float is an exact rational <<n, d>> with d > 0 in lowest terms,    *)
(*    or +inf <<1, 0>>, -inf <<-1, 0>>, NaN <<0, 0>>, with IEEE-754's      *)
(*    rules for comparisons and arithmetic on the non-finite values.       *)
(*    Rounding is not modelled.                                            *)
(*  - Node objects are named by their position in the tree: the root is    *)
(*    1, the children of node n are 2n (left) and 2n+1 (right).            *)
(*  - Python's None is NoDim / NoNode (0) for a dimension or a node        *)
(*    reference, and None (the empty tuple) for a threshold.               *)
(*  - What a call gives back is "True", "False", or the name of the        *)
(*    exception it raises.                                                 *)
(***************************************************************************)
EXTENDS Integers, Sequences, FiniteSets, TLC

\* ------------------------------------------------------------------ bounds
NumSamples == 3      \* rows of the dataset
MaxVal == 1          \* data values are drawn from 0..MaxVal
MaxDepth == 2        \* largest max_depth / depth at which a node is split
MaxLeaves == 3       \* largest max_num_leaves

Dims == {1, 2}       \* the dataset's columns (dim_names)
Rows == 1..NumSamples

\* -------------------------------------------------------------- None values
NoDim == 0
NoNode == 0
None == <<>>

\* ------------------------------------------------------------------ floats
NaN == <<0, 0>>
PosInf == <<1, 0>>
NegInf == <<-1, 0>>

AbsInt(x) == IF x < 0 THEN -x ELSE x
SignInt(x) == IF x < 0 THEN -1 ELSE IF x = 0 THEN 0 ELSE 1

RECURSIVE GCD(_, _)
GCD(a, b) == IF b = 0 THEN a ELSE GCD(b, a % b)

\* The rational n/d (d # 0) in lowest terms with a positive denominator.
Rat(n, d) ==
  IF d = 1 THEN <<n, 1>>
  ELSE IF d > 0 THEN LET g == GCD(AbsInt(n), d) IN <<n \div g, d \div g>>
  ELSE LET g == GCD(AbsInt(n), -d) IN <<(-n) \div g, (-d) \div g>>

Fin(v) == <<v, 1>>
IsNaN(a) == a = NaN
IsInf(a) == a[2] = 0 /\ a[1] # 0
IsFin(a) == a[2] > 0

\* Comparisons: every comparison with NaN is false.
Le(a, b) ==
  /\ ~IsNaN(a) /\ ~IsNaN(b)
  /\ IF a[2] = 0 /\ b[2] = 0 THEN a[1] <= b[1] ELSE a[1] * b[2] <= b[1] * a[2]
Lt(a, b) == Le(a, b) /\ a # b
Ge(a, b) == Le(b, a)
Gt(a, b) == Lt(b, a)
EqF(a, b) == ~IsNaN(a) /\ ~IsNaN(b) /\ a = b

Neg(a) == <<-a[1], a[2]>>
\* Arithmetic with a non-finite operand.
AddX(a, b) ==
  IF IsNaN(a) \/ IsNaN(b) THEN NaN
  ELSE IF IsInf(a) /\ IsInf(b) THEN (IF a = b THEN a ELSE NaN)
  ELSE IF IsInf(a) THEN a
  ELSE b
MulX(a, b) ==
  IF IsNaN(a) \/ IsNaN(b) THEN NaN
  ELSE IF a[1] = 0 \/ b[1] = 0 THEN NaN ELSE <<SignInt(a[1]) * SignInt(b[1]), 0>>
\* numpy float division: x/0 is +-inf (0/0 is NaN), never an exception.
DivX(a, b) ==
  IF IsNaN(a) \/ IsNaN(b) THEN NaN
  ELSE IF IsInf(a) /\ IsInf(b) THEN NaN
  ELSE IF IsInf(a) THEN <<SignInt(a[1]) * (IF b[1] < 0 THEN -1 ELSE 1), 0>>
  ELSE IF IsInf(b) THEN Fin(0)
  ELSE IF a[1] = 0 THEN NaN ELSE <<SignInt(a[1]), 0>>
Add(a, b) ==
  IF a[2] > 0 /\ b[2] > 0 THEN Rat(a[1] * b[2] + b[1] * a[2], a[2] * b[2]) ELSE AddX(a, b)
Sub(a, b) ==
  IF a[2] > 0 /\ b[2] > 0 THEN Rat(a[1] * b[2] - b[1] * a[2], a[2] * b[2])
  ELSE AddX(a, Neg(b))
Mul(a, b) ==
  IF a[2] > 0 /\ b[2] > 0 THEN Rat(a[1] * b[1], a[2] * b[2]) ELSE MulX(a, b)
Div(a, b) ==
  IF a[2] > 0 /\ b[2] > 0 /\ b[1] # 0 THEN Rat(a[1] * b[2], a[2] * b[1]) ELSE DivX(a, b)
AbsF(a) == <<AbsInt(a[1]), a[2]>>

\* ------------------------------------------------------------ sequences
RECURSIVE SumSeq(_)
SumSeq(s) == IF s = <<>> THEN Fin(0) ELSE Add(Head(s), SumSeq(Tail(s)))

SetToSeqs(S) == {s \in [1..Cardinality(S) -> S] : \A i, j \in DOMAIN s : i # j => s[i] # s[j]}
Range(s) == {s[i] : i \in DOMAIN s}

VARIABLES
  data,                \* Source.data: row -> dimension -> value
  all_sorted_indices,  \* Source.all_sorted_indices: dimension -> rows sorted by value
  split_dims,          \* the split_dims argument, a sequence of dimensions
  eval_dims,           \* the eval_dims argument, a sequence of dimensions
  nodes,               \* the tree under construction: node name -> Node object
  pc,                  \* which entry point is running, or how it ended
  args,                \* the other arguments of the running entry point
  stack,               \* the pending _recurse calls, the next one first
  queue,               \* tree_best_first's queue of (node, priority)
  num_leaves,          \* tree_best_first's num_leaves
  rnodes,              \* the tree tree_from_dict builds
  ret                  \* the last manual split call and what it returned

vars == <<data, all_sorted_indices, split_dims, eval_dims, nodes, pc, args, stack,
          queue, num_leaves, rnodes, ret>>
source == <<data, all_sorted_indices, split_dims, eval_dims>>

\* ------------------------------------------------------------------ Source
\* Column d of the rows listed in idx, in that order.
Column(idx, d) == [i \in DOMAIN idx |-> Fin(data[idx[i]][d])]

RECURSIVE SumInt(_)
SumInt(s) == IF s = <<>> THEN 0 ELSE Head(s) + SumInt(Tail(s))

\* np.mean of column d over the rows of idx (at least one row).
MeanOf(idx, d) == Rat(SumInt([i \in DOMAIN idx |-> data[idx[i]][d]]), Len(idx))
\* The diagonal of np.cov(ddof=0) times the number of rows: the sum of the
\* squared deviations from the mean, sum(x^2) - sum(x)^2 / n.
VarSumOf(idx, d) ==
  LET sx == SumInt([i \in DOMAIN idx |-> data[idx[i]][d]])
      sxx == SumInt([i \in DOMAIN idx |-> data[idx[i]][d] * data[idx[i]][d]])
  IN  Rat(Len(idx) * sxx - sx * sx, Len(idx))

\* np.argsort along dimension d: the rows by ascending value, equal values by row.
argsort(d) ==
  CHOOSE perm \in SetToSeqs(Rows) :
    \A i \in 1..(NumSamples - 1) :
      \/ data[perm[i]][d] < data[perm[i + 1]][d]
      \/ data[perm[i]][d] = data[perm[i + 1]][d] /\ perm[i] < perm[i + 1]

global_var_scale ==
  [d \in Dims |->
     LET var == Div(VarSumOf([i \in Rows |-> i], d), Fin(NumSamples))
     IN  IF var = Fin(0) THEN Fin(1) ELSE Div(Fin(1), var)]

\* -------------------------------------------------------------------- Node
\* np.min and np.max of column d over the rows of idx (at least one row).
MinOf(idx, d) ==
  LET vals == {data[idx[i]][d] : i \in DOMAIN idx}
  IN  Fin(CHOOSE x \in vals : \A y \in vals : x <= y)
MaxOf(idx, d) ==
  LET vals == {data[idx[i]][d] : i \in DOMAIN idx}
  IN  Fin(CHOOSE x \in vals : \A y \in vals : y <= x)

InfiniteBB == [d \in Dims |-> <<NegInf, PosInf>>]

\* The first line of Node.populate: sorted_indices None stands for an empty
\* array with one column per dimension.
EmptyIndices == [d \in Dims |-> <<>>]
OrEmpty(sorted_indices) == IF sorted_indices = None THEN EmptyIndices ELSE sorted_indices

\* Node.populate: the statistics of the samples in sorted_indices.
\* (populateSwapped is a faulty variant that takes the largest value for the
\* lower end of bb_min and the smallest for the upper end.)
populateSwapped(sorted_indices) ==
  LET n == Len(sorted_indices[1])
      X == sorted_indices[1]
  IN  [sorted_indices |-> sorted_indices,
       num_samples |-> n,
       mean |-> [d \in Dims |-> IF n > 0 THEN MeanOf(X, d) ELSE NaN],
       bb_min |-> [d \in Dims |->
                     IF n > 0 THEN <<MaxOf(X, d), MinOf(X, d)>> ELSE <<NaN, NaN>>],
       var_sum |-> [d \in Dims |-> IF n > 1 THEN VarSumOf(X, d) ELSE Fin(0)]]
populate(sorted_indices) ==
  LET n == Len(sorted_indices[1])
      X == sorted_indices[1]
  IN  [sorted_indices |-> sorted_indices,
       num_samples |-> n,
       mean |-> [d \in Dims |-> IF n > 0 THEN MeanOf(X, d) ELSE NaN],
       bb_min |-> [d \in Dims |->
                     IF n > 0 THEN <<MinOf(X, d), MaxOf(X, d)>> ELSE <<NaN, NaN>>],
       var_sum |-> [d \in Dims |-> IF n > 1 THEN VarSumOf(X, d) ELSE Fin(0)]]

\* How a caller hands bb_max to Node.__init__: not at all (None), as a list
\* of [lo, hi] pairs, or as a numpy array.
BBNone == [kind |-> "None", value |-> InfiniteBB]
BBList(bb) == [kind |-> "list", value |-> bb]
BBArray(bb) == [kind |-> "ndarray", value |-> bb]

\* `bb_max if bb_max else ...` in Node.__init__ takes the truth value of
\* bb_max. None is false and a list of pairs is true; a numpy array of more
\* than one element has no truth value, bool() of it raises ValueError.
ArraySize(bb) == 2 * Cardinality(DOMAIN bb)
NodeRaises(bb_max) == bb_max.kind = "ndarray" /\ ArraySize(bb_max.value) > 1

\* Node.__init__ where it raises nothing, with no bb_min given: an unsplit
\* node. eval_child_and_dims is an attribute only a one-sided split sets:
\* <<1>> when the split is made for the right child, <<0>> for the left one
\* (the pair of dimensions is left out).
Node(sorted_indices, bb_max) ==
  populate(OrEmpty(sorted_indices)) @@
  [bb_max |-> IF bb_max.kind = "None" THEN InfiniteBB ELSE bb_max.value,
   split_dim |-> NoDim,
   split_threshold |-> None,
   left |-> NoNode,
   right |-> NoNode,
   eval_child_and_dims |-> None]

\* utils.split_sorted_indices: the first split_index rows along split_dim go
\* left, the others right; every dimension's list keeps its own order.
split_sorted_indices(sorted_indices, split_dim, split_index) ==
  LET leftRows == {sorted_indices[split_dim][i] : i \in 1..split_index}
      InLeft(r) == r \in leftRows
      InRight(r) == r \notin leftRows
  IN  <<[d \in Dims |-> SelectSeq(sorted_indices[d], InLeft)],
        [d \in Dims |-> SelectSeq(sorted_indices[d], InRight)]>>

\* bisect.bisect (bisect_right) of x in the sorted list a, between lo and hi.
RECURSIVE bisect(_, _, _, _)
bisect(a, x, lo, hi) ==
  IF lo < hi
  THEN LET mid == (lo + hi) \div 2
       IN  IF Lt(x, a[mid + 1]) THEN bisect(a, x, lo, mid) ELSE bisect(a, x, mid + 1, hi)
  ELSE lo

LeftName(n) == 2 * n
RightName(n) == 2 * n + 1

\* The node's maximal bounding box cut at the threshold, for each child.
BBMaxLeft(node, split_dim, thr) ==
  [node.bb_max EXCEPT ![split_dim] = <<node.bb_max[split_dim][1], thr>>]
BBMaxRight(node, split_dim, thr) ==
  [node.bb_max EXCEPT ![split_dim] = <<thr, node.bb_max[split_dim][2]>>]

\* The test that opens Node._do_manual_split. (ManualSplitAllowedNoUpper is a
\* faulty variant that leaves out the test against the upper bound.)
ManualSplitAllowedNoUpper(node, split_dim, thr) ==
  Le(node.bb_max[split_dim][1], thr)
ManualSplitAllowed(node, split_dim, thr) ==
  Le(node.bb_max[split_dim][1], thr) /\ Le(thr, node.bb_max[split_dim][2])

\* ------------------------------------------------------------ split search
\* utils.increment_mean_and_var_sum: the running mean and variance sum of one
\* evaluation dimension after sample x joins (sign 1, n samples afterwards)
\* or leaves (sign -1, n samples afterwards) the aggregate:
\*   d_last = x - mean; mean += sign * d_last / n; d = x - mean;
\*   var_sum += sign * d_last * d.
IncrementVarSum(var_sum, x, sign, d_last, mean2) ==
  <<mean2, Add(var_sum, Mul(Fin(sign), Mul(d_last, Sub(x, mean2))))>>
IncrementMean(n, mean, var_sum, x, sign, d_last) ==
  IncrementVarSum(var_sum, x, sign, d_last, Add(mean, Mul(Fin(sign), Div(d_last, Fin(n)))))
increment_mean_and_var_sum(n, mean, var_sum, x, sign) ==
  IncrementMean(n, mean, var_sum, x, sign, Sub(x, mean))

\* One side (1 left, 2 right) of one pass of the loop of
\* Node._eval_splits_one_dim: <<mean, var_sum>> of each evaluation dimension
\* once the sample at position num_left has changed sides.
\* (EvalSideSameCount is a faulty variant that hands num_left, not num_right,
\* to the update of the right side.)
EvalSideSameCount(node, split_dim, last, num_left, side) ==
  [e \in DOMAIN eval_dims |->
     increment_mean_and_var_sum(
       num_left,
       last.mean[side][e], last.var_sum[side][e],
       Fin(data[node.sorted_indices[split_dim][num_left]][eval_dims[e]]),
       IF side = 1 THEN 1 ELSE -1)]
EvalSide(node, split_dim, last, num_left, side) ==
  [e \in DOMAIN eval_dims |->
     increment_mean_and_var_sum(
       IF side = 1 THEN num_left ELSE node.num_samples - num_left,
       last.mean[side][e], last.var_sum[side][e],
       Fin(data[node.sorted_indices[split_dim][num_left]][eval_dims[e]]),
       IF side = 1 THEN 1 ELSE -1)]

EvalEntry(l, r) ==
  [mean |-> << [e \in DOMAIN l |-> l[e][1]], [e \in DOMAIN r |-> r[e][1]] >>,
   var_sum |-> << [e \in DOMAIN l |-> l[e][2]], [e \in DOMAIN r |-> r[e][2]] >>]

\* The entries 0..upto, given the entries 0..upto-1.
EvalExtend(node, split_dim, prev, upto) ==
  Append(prev, EvalEntry(EvalSide(node, split_dim, prev[upto], upto, 1),
                         EvalSide(node, split_dim, prev[upto], upto, 2)))

\* Node._eval_splits_one_dim, variances only: entry i + 1 of the result holds
\* the code's mean[:, i] and var_sum[:, i] (side 1 is the code's 0, the left;
\* side 2 the code's 1, the right), each a tuple over the positions of
\* eval_dims, for i = 0..upto.
RECURSIVE eval_splits_one_dim(_, _, _)
eval_splits_one_dim(node, split_dim, upto) ==
  IF upto = 0
  THEN << [mean |-> << [e \in DOMAIN eval_dims |-> Fin(0)],
                       [e \in DOMAIN eval_dims |-> node.mean[eval_dims[e]]] >>,
           var_sum |-> << [e \in DOMAIN eval_dims |-> Fin(0)],
                          [e \in DOMAIN eval_dims |-> node.var_sum[eval_dims[e]]] >>] >>
  ELSE EvalExtend(node, split_dim, eval_splits_one_dim(node, split_dim, upto - 1), upto)

\* The quality of every split point of cov_or_var_sum (entry i + 1 is the
\* code's qual[i]): the reduction of the scaled variance sums.
QualityOf(vs) ==
  [i \in DOMAIN vs |->
     SumSeq([e \in DOMAIN eval_dims |->
               Mul(Sub(vs[1].var_sum[2][e], Add(vs[i].var_sum[1][e], vs[i].var_sum[2][e])),
                   global_var_scale[eval_dims[e]])])]
SplitQuality(node, split_dim) ==
  QualityOf(eval_splits_one_dim(node, split_dim, node.num_samples - 1))

\* np.argmax: the first position of the largest value (as a 0-based index).
argmax(q) ==
  (CHOOSE i \in DOMAIN q :
     /\ \A j \in DOMAIN q : Le(q[j], q[i])
     /\ \A j \in DOMAIN q : j < i => Lt(q[j], q[i])) - 1

\* Whether the search looks at a dimension: not when the node has no variance there.
HasVariance(node, split_dim) == node.var_sum[split_dim] # Fin(0)

\* The entry of splits for one dimension: its best split point and quality.
SplitEntry(split_dim, qual, split_point) ==
  [split_dim |-> split_dim, split_point |-> split_point, qual |-> qual[split_point + 1]]
BestOfDim(split_dim, qual) == SplitEntry(split_dim, qual, argmax(qual))

\* Node._find_greedy_splits in plain mode (corr and one_sided False): the best
\* split of each dimension of dims that has variance, in the order of dims.
RECURSIVE find_greedy_splits(_, _)
find_greedy_splits(node, dims) ==
  IF dims = <<>> THEN <<>>
  ELSE (IF HasVariance(node, Head(dims))
        THEN <<BestOfDim(Head(dims), SplitQuality(node, Head(dims)))>>
        ELSE <<>>) \o find_greedy_splits(node, Tail(dims))

\* sorted(splits, key=quality, reverse=True)[0]: Python's sort is stable, also
\* when reversed, so the first of the splits of largest quality comes first.
BestSplit(splits) ==
  splits[CHOOSE i \in DOMAIN splits :
           /\ \A j \in DOMAIN splits : Le(splits[j].qual, splits[i].qual)
           /\ \A j \in DOMAIN splits : j < i => Lt(splits[j].qual, splits[i].qual)]

\* A split is made only when its quality is strictly positive.
\* (AcceptedInclusive is a faulty variant with >= for >.)
AcceptedInclusive(qual) == Ge(qual, Fin(0))
Accepted(qual) == Gt(qual, Fin(0))

\* The threshold of a greedy split: the midpoint of the samples either side.
GreedyThreshold(left, right, split_dim) ==
  Div(Add(Fin(data[left[split_dim][Len(left[split_dim])]][split_dim]),
          Fin(data[right[split_dim][1]][split_dim])),
      Fin(2))

\* The fields a split sets on node n before it makes the children.
Marked(t, n, split_dim, thr, one_sided_for) ==
  [t EXCEPT ![n] = [@ EXCEPT !.split_dim = split_dim, !.split_threshold = thr,
                             !.eval_child_and_dims = one_sided_for]]

\* self.left = Node(...) and self.right = Node(...) on the outcome r so far:
\* the child is attached unless its constructor raises.
Attach(t, n, m, child) ==
  [k \in DOMAIN t \cup {m} |->
     IF k = n
     THEN (IF m = LeftName(n) THEN [t[n] EXCEPT !.left = m] ELSE [t[n] EXCEPT !.right = m])
     ELSE IF k = m THEN child ELSE t[k]]
MakeChild(r, n, m, wanted, sorted_indices, bb_max) ==
  IF r[2] # "True" \/ ~wanted THEN r
  ELSE IF NodeRaises(BBArray(bb_max)) THEN <<r[1], "ValueError">>
  ELSE <<Attach(r[1], n, m, Node(sorted_indices, BBArray(bb_max))), "True">>

\* Node n of tree t split along split_dim at thr, with the children named in
\* `made` built from the halves lr of its samples, the left one first:
\* <<the tree after, "True" or the exception raised>>.
WithChildren(t, n, split_dim, thr, lr, made, one_sided_for) ==
  MakeChild(MakeChild(<<Marked(t, n, split_dim, thr, one_sided_for), "True">>,
                      n, LeftName(n), LeftName(n) \in made, lr[1],
                      BBMaxLeft(t[n], split_dim, thr)),
            n, RightName(n), RightName(n) \in made, lr[2],
            BBMaxRight(t[n], split_dim, thr))

\* The greedy split of node n along split_dim into the halves lr. Line 174
\* reads left[-1] and right[0]: with a half empty that is an IndexError, with
\* split_dim already set.
GreedyChildren(t, n, split_dim, lr, made, one_sided_for) ==
  IF lr[1][split_dim] = <<>> \/ lr[2][split_dim] = <<>>
  THEN <<[t EXCEPT ![n] = [@ EXCEPT !.split_dim = split_dim]], "IndexError">>
  ELSE WithChildren(t, n, split_dim, GreedyThreshold(lr[1], lr[2], split_dim), lr, made,
                    one_sided_for)

\* The second half of Node._do_greedy_split: the best split is made if its
\* quality is positive.
NoSplit == [split_dim |-> NoDim, split_point |-> 0, qual |-> NaN]
WithBest(r, best) == <<r[1], r[2], best>>
ApplyBest(t, n, best) ==
  IF ~Accepted(best.qual) THEN <<t, "False", best>>
  ELSE WithBest(GreedyChildren(t, n, best.split_dim,
                               split_sorted_indices(t[n].sorted_indices, best.split_dim,
                                                    best.split_point),
                               {LeftName(n), RightName(n)}, t[n].eval_child_and_dims),
                best)

ChooseSplit(t, n, splits) ==
  IF splits = <<>> THEN <<t, "False", NoSplit>> ELSE ApplyBest(t, n, BestSplit(splits))

\* Node._do_greedy_split in plain mode on node n of tree t: <<the tree after,
\* the first component of the return value or the exception, the split
\* chosen>>.
do_greedy_split(t, n) == ChooseSplit(t, n, find_greedy_splits(t[n], split_dims))

\* Node._do_manual_split on node n of tree t: <<the tree after, the return
\* value or the exception>>.
do_manual_split(t, n, split_dim, thr) ==
  IF ~ManualSplitAllowed(t[n], split_dim, thr) THEN <<t, "False">>
  ELSE WithChildren(t, n, split_dim, thr,
                    split_sorted_indices(
                      t[n].sorted_indices, split_dim,
                      bisect(Column(t[n].sorted_indices[split_dim], split_dim), thr, 0,
                             t[n].num_samples)),
                    {LeftName(n), RightName(n)}, t[n].eval_child_and_dims)

\* What the one-sided search (corr and one_sided True) can return for a node:
\* a dimension the search looks at and a split point with samples on both
\* sides. Which candidate wins, and whether its quality is positive, is decided
\* by the R^2 scores of utils.cov_to_r2, which the model leaves open.
OneSidedCandidate(node, split_dim, split_point) ==
  /\ split_dim \in Range(split_dims)
  /\ HasVariance(node, split_dim)
  /\ split_point \in 1..(node.num_samples - 1)

\* Node._do_greedy_split with one_sided True, once the search has returned
\* (split_dim, split_point) with a positive quality for the left child
\* (do_right false) or the right child: eval_child_and_dims is set and only
\* that child is built.
do_one_sided_split(t, n, split_dim, split_point, do_right) ==
  GreedyChildren(t, n, split_dim,
                 split_sorted_indices(t[n].sorted_indices, split_dim, split_point),
                 {IF do_right THEN RightName(n) ELSE LeftName(n)},
                 IF do_right THEN <<1>> ELSE <<0>>)

\* ------------------------------------------------------------ best first
\* np.dot(node.var_sum[eval_dims], global_var_scale[eval_dims]).
Priority(node) ==
  SumSeq([e \in DOMAIN eval_dims |->
            Mul(node.var_sum[eval_dims[e]], global_var_scale[eval_dims[e]])])

\* queue.sort(key=priority, reverse=True): a stable sort by descending
\* priority, as an insertion of each entry behind those not smaller.
RECURSIVE InsertSorted(_, _)
InsertSorted(sorted, x) ==
  IF sorted = <<>> THEN <<x>>
  ELSE IF Ge(Head(sorted).priority, x.priority)
       THEN <<Head(sorted)>> \o InsertSorted(Tail(sorted), x)
       ELSE <<x>> \o sorted
RECURSIVE SortQueue(_)
SortQueue(q) ==
  IF q = <<>> THEN <<>>
  ELSE InsertSorted(SortQueue(SubSeq(q, 1, Len(q) - 1)), q[Len(q)])

\* ------------------------------------------------------------- tree helpers
IsLeaf(t, n) == t[n].left = NoNode /\ t[n].right = NoNode
Leaves(t) == {n \in DOMAIN t : IsLeaf(t, n)}
SplitNodes(t) == {n \in DOMAIN t : t[n].split_dim # NoDim}
RECURSIVE Depth(_)
Depth(n) == IF n = 1 THEN 0 ELSE 1 + Depth(n \div 2)
SampleSet(node) == Range(node.sorted_indices[1])


\* Thresholds a caller may pass to a manual split: the data values, the
\* midpoints between them, and one value beyond each end.
Thresholds == {Rat(k, 2) : k \in (-1)..(2 * MaxVal + 1)}

\* A finite maximal bounding box a caller may hand to Node.__init__ as a list:
\* the interval of the values a sample can take, in every dimension.
FiniteBB == [d \in Dims |-> <<Fin(0), Fin(MaxVal)>>]

\* ----------------------------------------------------------- specification
\* Source.__init__ on some dataset, and the arguments of the calls to come.
\* np.argsort orders equal values by row (its sort of a short list is an
\* insertion sort); the datasets drawn hold the rows in every order.
InitSource ==
  /\ data \in [Rows -> [Dims -> 0..MaxVal]]
  /\ all_sorted_indices = [d \in Dims |-> argsort(d)]
  /\ split_dims \in {<<1>>, <<1, 2>>, <<2, 1>>}
  /\ eval_dims \in {<<1>>, <<2>>, <<1, 2>>}

\* The sorted_indices a caller passes for the samples in S: each dimension's
\* sorted index, restricted to S.
Restrict(si, S) == SelectSeq(si, LAMBDA i : i \in S)
SortedIndicesOf(S) == [d \in Dims |-> Restrict(all_sorted_indices[d], S)]
SampleSubsets == SUBSET Rows

\* _preflight_check: sorted_indices None stands for all_sorted_indices.
preflight_check(sorted_indices) ==
  IF sorted_indices = None THEN all_sorted_indices ELSE sorted_indices
SortedIndicesArgs == {None} \cup {SortedIndicesOf(S) : S \in SampleSubsets \ {Rows}}

\* A tree of one node, Node(source, sorted_indices=..., bb_max=...).
NoTree == [n \in {} |-> 0]
Root(sorted_indices, bb_max) == [n \in {1} |-> Node(sorted_indices, bb_max)]

\* What the last split call was and gave back, and the same for no call yet.
NoCall == [call |-> "none"]
GreedyCall(n, r) ==
  [call |-> "greedy", node |-> n, split_dim |-> r[3].split_dim,
   split_point |-> r[3].split_point, outcome |-> r[2]]
OneSidedCall(n, split_dim, split_point, do_right, r) ==
  [call |-> "one_sided", node |-> n, split_dim |-> split_dim,
   split_point |-> split_point, do_right |-> do_right, outcome |-> r[2]]
ManualCall(n, split_dim, thr, r) ==
  [call |-> "manual", node |-> n, split_dim |-> split_dim, split_threshold |-> thr,
   outcome |-> r[2]]

\* ------------------------------------------------- a free sequence of splits
\* Any sequence of split calls on the nodes of a tree, starting from a root
\* over all samples, built with the default bb_max or with a finite one. A
\* call that raises leaves the node as it is at the raise, for the caller
\* that goes on.
InitSplits ==
  /\ InitSource
  /\ Len(split_dims) = 2 /\ Len(eval_dims) = 2
  /\ nodes \in {Root(all_sorted_indices, bb) : bb \in {BBNone, BBList(FiniteBB)}}
  /\ pc = "splits"
  /\ args = NoCall /\ stack = <<>> /\ queue = <<>> /\ num_leaves = 0 /\ rnodes = NoTree
  /\ ret = NoCall

GreedySplit(n) ==
  /\ pc = "splits"
  /\ \E r \in {do_greedy_split(nodes, n)} :
       /\ nodes' = r[1]
       /\ ret' = GreedyCall(n, r)
  /\ UNCHANGED <<source, pc, args, stack, queue, num_leaves, rnodes>>

\* A one-sided greedy split (corr and one_sided True, which tree_depth_first
\* allows with two or more eval_dims).
OneSidedSplit(n, split_dim, split_point, do_right) ==
  /\ pc = "splits"
  /\ Len(eval_dims) > 1
  /\ OneSidedCandidate(nodes[n], split_dim, split_point)
  /\ \E r \in {do_one_sided_split(nodes, n, split_dim, split_point, do_right)} :
       /\ nodes' = r[1]
       /\ ret' = OneSidedCall(n, split_dim, split_point, do_right, r)
  /\ UNCHANGED <<source, pc, args, stack, queue, num_leaves, rnodes>>

ManualSplit(n, split_dim, thr) ==
  /\ pc = "splits"
  /\ \E r \in {do_manual_split(nodes, n, split_dim, thr)} :
       /\ nodes' = r[1]
       /\ ret' = ManualCall(n, split_dim, thr, r)
  /\ UNCHANGED <<source, pc, args, stack, queue, num_leaves, rnodes>>

NextSplits ==
  \/ \E n \in DOMAIN nodes : GreedySplit(n)
  \/ \E n \in DOMAIN nodes, d \in Dims, i \in 1..(NumSamples - 1), r \in BOOLEAN :
       OneSidedSplit(n, d, i, r)
  \/ \E n \in DOMAIN nodes, d \in Dims, thr \in Thresholds : ManualSplit(n, d, thr)

SpecSplits == InitSplits /\ [][NextSplits]_vars

\* ------------------------------------------------------------- tree growth
Init ==
  /\ InitSource
  /\ nodes = NoTree
  /\ pc = "idle"
  /\ args = NoCall /\ stack = <<>> /\ queue = <<>> /\ num_leaves = 0 /\ rnodes = NoTree
  /\ ret = NoCall

\* The two tests of _recurse in tree_depth_first: the node exists and lies
\* above max_depth. (MayDescendInclusive is a faulty variant with <= for <.)
MayDescendInclusive(node, depth, max_depth) == node # NoNode /\ depth <= max_depth
MayDescend(node, depth, max_depth) == node # NoNode /\ depth < max_depth

\* Source.tree_depth_first up to its first _recurse call.
CallDepthFirst(max_depth, one_sided, sorted_indices) ==
  /\ pc = "idle"
  /\ one_sided => Len(eval_dims) > 1
  /\ args' = [call |-> "tree_depth_first", max_depth |-> max_depth,
              one_sided |-> one_sided, sorted_indices |-> sorted_indices]
  /\ nodes' = Root(preflight_check(sorted_indices), BBNone)
  /\ stack' = << <<1, 0>> >>
  /\ pc' = "depth_first"
  /\ UNCHANGED <<source, queue, num_leaves, rnodes, ret>>

\* What _recurse does with the outcome r of its split of `node`: with ok it
\* goes into both children, without it returns; an exception ends the call
\* of tree_depth_first, and no tree is stored.
AfterGreedySplit(node, depth, r) ==
  /\ nodes' = r[1]
  /\ stack' = IF r[2] = "True"
              THEN << <<r[1][node].left, depth + 1>>,
                      <<r[1][node].right, depth + 1>> >> \o Tail(stack)
              ELSE IF r[2] = "False" THEN Tail(stack) ELSE <<>>
  /\ pc' = IF r[2] \in {"True", "False"} THEN pc ELSE r[2]

\* One call _recurse(node, depth) of tree_depth_first, in plain mode.
DepthFirstRecurse ==
  /\ pc = "depth_first" /\ stack # <<>> /\ ~args.one_sided
  /\ LET node == Head(stack)[1]
         depth == Head(stack)[2]
     IN  IF MayDescend(node, depth, args.max_depth)
         THEN \E r \in {do_greedy_split(nodes, node)} :
                /\ AfterGreedySplit(node, depth, r)
                /\ ret' = GreedyCall(node, r)
         ELSE nodes' = nodes /\ stack' = Tail(stack) /\ pc' = pc /\ ret' = ret
  /\ UNCHANGED <<source, args, queue, num_leaves, rnodes>>

\* One call _recurse(node, depth) of tree_depth_first, one-sided: the search
\* returns one of the node's candidates with a positive quality, or none.
DepthFirstRecurseOneSided ==
  /\ pc = "depth_first" /\ stack # <<>> /\ args.one_sided
  /\ LET node == Head(stack)[1]
         depth == Head(stack)[2]
     IN  IF MayDescend(node, depth, args.max_depth)
         THEN \/ nodes' = nodes /\ stack' = Tail(stack) /\ pc' = pc /\ ret' = ret
              \/ \E d \in Dims, i \in 1..(NumSamples - 1), do_right \in BOOLEAN :
                   /\ OneSidedCandidate(nodes[node], d, i)
                   /\ \E r \in {do_one_sided_split(nodes, node, d, i, do_right)} :
                        /\ AfterGreedySplit(node, depth, r)
                        /\ ret' = OneSidedCall(node, d, i, do_right, r)
         ELSE nodes' = nodes /\ stack' = Tail(stack) /\ pc' = pc /\ ret' = ret
  /\ UNCHANGED <<source, args, queue, num_leaves, rnodes>>

\* tree_depth_first stores the tree and returns.
DepthFirstReturn ==
  /\ pc = "depth_first" /\ stack = <<>>
  /\ pc' = "done"
  /\ UNCHANGED <<source, nodes, args, stack, queue, num_leaves, rnodes, ret>>

\* The loop test of tree_best_first.
LoopTest(n, max_num_leaves, q) == n < max_num_leaves /\ Len(q) > 0

\* Source.tree_best_first up to its loop.
CallBestFirst(max_num_leaves, sorted_indices) ==
  /\ pc = "idle"
  /\ args' = [call |-> "tree_best_first", max_num_leaves |-> max_num_leaves,
              sorted_indices |-> sorted_indices]
  /\ nodes' = Root(preflight_check(sorted_indices), BBNone)
  /\ queue' = << [node |-> 1,
                  priority |-> Priority(Root(preflight_check(sorted_indices), BBNone)[1])] >>
  /\ num_leaves' = 1
  /\ pc' = "best_first"
  /\ UNCHANGED <<source, stack, rnodes, ret>>

\* One iteration of tree_best_first's loop; an exception ends the call, and
\* no tree is stored.
BestFirstIterate ==
  /\ pc = "best_first"
  /\ LoopTest(num_leaves, args.max_num_leaves, queue)
  /\ LET sorted == SortQueue(queue)
         node == sorted[1].node
     IN  \E r \in {do_greedy_split(nodes, node)} :
           /\ nodes' = r[1]
           /\ ret' = GreedyCall(node, r)
           /\ pc' = IF r[2] \in {"True", "False"} THEN pc ELSE r[2]
           /\ IF r[2] = "True"
              THEN /\ num_leaves' = num_leaves + 1
                   /\ queue' = Tail(sorted) \o
                        << [node |-> r[1][node].left,
                            priority |-> Priority(r[1][r[1][node].left])],
                           [node |-> r[1][node].right,
                            priority |-> Priority(r[1][r[1][node].right])] >>
              ELSE /\ num_leaves' = num_leaves
                   /\ queue' = Tail(sorted)
  /\ UNCHANGED <<source, args, stack, rnodes>>

\* The loop has ended: tree_best_first stores the tree and returns.
BestFirstReturn ==
  /\ pc = "best_first"
  /\ ~LoopTest(num_leaves, args.max_num_leaves, queue)
  /\ pc' = "done"
  /\ UNCHANGED <<source, nodes, args, stack, queue, num_leaves, rnodes, ret>>

\* The dictionary that records a tree's own splits: one entry per split node,
\* keyed by the node's name (the root's key is 1).
Directives(t) ==
  [n \in {m \in DOMAIN t : t[m].split_dim # NoDim} |->
     [split_dim |-> t[n].split_dim, split_threshold |-> t[n].split_threshold,
      left |-> LeftName(n), right |-> RightName(n)]]

\* The dictionaries tree_from_dict is called with: the directives of the tree
\* just grown, or, with no tree grown, those of a hand-specified tree of one
\* split.
OneSplitDicts ==
  {[n \in {1} |-> [split_dim |-> d, split_threshold |-> thr, left |-> 2, right |-> 3]] :
     d \in Dims, thr \in Thresholds}
DictsToReplay == IF pc = "done" THEN {Directives(nodes)} ELSE OneSplitDicts

\* Source.tree_from_dict up to its first _recurse call. A frame is
\* <<node, n>>: the node and its key in d. The root holds all samples.
CallTreeFromDict(d) ==
  /\ pc \in {"idle", "done"}
  /\ args' = [call |-> "tree_from_dict", d |-> d, grown |-> args]
  /\ rnodes' = Root(all_sorted_indices, BBNone)
  /\ stack' = << <<1, 1>> >>
  /\ pc' = "from_dict"
  /\ UNCHANGED <<source, nodes, queue, num_leaves, ret>>

\* One call _recurse(node, n) of tree_from_dict: a refused split raises
\* ValueError, as does a split whose children cannot be built.
FromDictRecurse ==
  /\ pc = "from_dict" /\ stack # <<>>
  /\ LET node == Head(stack)[1]
         n == Head(stack)[2]
         d == args.d
     IN  IF n \in DOMAIN d
         THEN \E r \in {do_manual_split(rnodes, node, d[n].split_dim, d[n].split_threshold)} :
                /\ rnodes' = r[1]
                /\ ret' = ManualCall(node, d[n].split_dim, d[n].split_threshold, r)
                /\ IF r[2] = "True"
                   THEN /\ stack' = << <<r[1][node].left, d[n].left>>,
                                       <<r[1][node].right, d[n].right>> >> \o Tail(stack)
                        /\ pc' = pc
                   ELSE /\ stack' = <<>>
                        /\ pc' = "ValueError"
         ELSE /\ stack' = Tail(stack)
              /\ UNCHANGED <<rnodes, ret, pc>>
  /\ UNCHANGED <<source, nodes, args, queue, num_leaves>>

\* tree_from_dict stores the tree and returns.
FromDictReturn ==
  /\ pc = "from_dict" /\ stack = <<>>
  /\ pc' = "replayed"
  /\ UNCHANGED <<source, nodes, args, stack, queue, num_leaves, rnodes, ret>>

Next ==
  \/ \E m \in 0..MaxDepth, si \in SortedIndicesArgs : CallDepthFirst(m, FALSE, si)
  \/ \E m \in 0..MaxDepth, si \in SortedIndicesArgs : CallDepthFirst(m, TRUE, si)
  \/ DepthFirstRecurse
  \/ DepthFirstRecurseOneSided
  \/ DepthFirstReturn
  \/ \E k \in 1..MaxLeaves, si \in SortedIndicesArgs : CallBestFirst(k, si)
  \/ BestFirstIterate
  \/ BestFirstReturn
  \/ \E d \in DictsToReplay : CallTreeFromDict(d)
  \/ FromDictRecurse
  \/ FromDictReturn

Spec == Init /\ [][Next]_vars

\* --------------------------------------------------------------- membership
\* A component of a query x: None, a scalar, or a (min, max) interval.
XNone == [kind |-> "None", lo |-> NaN, hi |-> NaN]
XScalar(v) == [kind |-> "scalar", lo |-> v, hi |-> v]
XInterval(lo, hi) == [kind |-> "interval", lo |-> lo, hi |-> hi]
Modes == {"mean", "min", "max", "fuzzy"}

\* What one pass of membership's loop does: leave with 0, raise, or go on,
\* with per_dim possibly one entry longer.
Return0 == [exit |-> "return", append |-> <<>>]
Raise == [exit |-> "raise", append |-> <<>>]
GoOn(appended) == [exit |-> "", append |-> appended]

\* The fuzzy degree of a scalar inside bb_max and outside bb_min.
FuzzyPartial(to_max_l, to_max_u, to_min_l, to_min_u) ==
  IF ~Ge(to_min_l, Fin(0))
  THEN Div(to_max_l, Sub(to_max_l, to_min_l))
  ELSE Div(to_max_u, Sub(to_max_u, to_min_u))

\* The fuzzy branch for a scalar xd.
FuzzyScalar(xd, lims_min, lims_max) ==
  IF ~(Ge(Sub(xd, lims_max[1]), Fin(0)) /\ Le(Sub(xd, lims_max[2]), Fin(0)))
  THEN Return0
  ELSE IF Ge(Sub(xd, lims_min[1]), Fin(0)) /\ Le(Sub(xd, lims_min[2]), Fin(0))
       THEN GoOn(<<Fin(1)>>)
       ELSE GoOn(<<FuzzyPartial(Sub(xd, lims_max[1]), Sub(xd, lims_max[2]),
                                Sub(xd, lims_min[1]), Sub(xd, lims_min[2]))>>)

\* The try block of the loop, for None and for a scalar xd.
ScalarStep(xd, lims_min, lims_max, mean, mode) ==
  IF xd.kind = "None" \/ IsNaN(xd.lo)
  THEN GoOn(IF mode = "fuzzy" THEN <<Fin(1)>> ELSE <<>>)
  ELSE IF mode = "mean"
       THEN (IF ~EqF(xd.lo, mean) THEN Return0 ELSE GoOn(<<>>))
  ELSE IF mode \in {"min", "max"}
       THEN (LET lims == IF mode = "min" THEN lims_min ELSE lims_max
             IN  IF ~(Ge(xd.lo, lims[1]) /\ Le(xd.lo, lims[2])) THEN Return0
                 ELSE GoOn(<<>>))
  ELSE FuzzyScalar(xd.lo, lims_min, lims_max)

\* The except block of the loop, which an interval xd ends up in.
IntervalStep(xd, lims_min, lims_max, mean, mode, contain) ==
  IF mode = "fuzzy" THEN Raise
  ELSE IF mode = "mean"
       THEN (IF ~(Le(xd.lo, mean) /\ Le(mean, xd.hi)) THEN Return0 ELSE GoOn(<<>>))
  ELSE LET lims == IF mode = "min" THEN lims_min ELSE lims_max
       IN  IF contain
           THEN (IF ~Ge(xd.lo, lims[1]) \/ Ge(xd.hi, lims[2]) THEN Return0 ELSE GoOn(<<>>))
           ELSE (IF ~Ge(xd.hi, lims[1]) \/ Ge(xd.lo, lims[2]) THEN Return0 ELSE GoOn(<<>>))

DimStep(node, xd, d, mode, contain) ==
  IF xd.kind = "interval"
  THEN IntervalStep(xd, node.bb_min[d], node.bb_max[d], node.mean[d], mode, contain)
  ELSE ScalarStep(xd, node.bb_min[d], node.bb_max[d], node.mean[d], mode)

\* Python's min over a list: the first item is kept until a later one
\* compares smaller, so a NaN is kept or skipped by its place in the list.
RECURSIVE PyMin(_, _)
PyMin(best, rest) ==
  IF rest = <<>> THEN best
  ELSE PyMin(IF Lt(Head(rest), best) THEN Head(rest) ELSE best, Tail(rest))

\* What a call of membership gives back: a value, or the error it raises.
Returns(v) == [value |-> v, raises |-> ""]
Raises(e) == [value |-> NaN, raises |-> e]

\* Node.membership from dimension d on, with per_dim as built so far.
RECURSIVE MembershipFrom(_, _, _, _, _, _)
AfterStep(node, x, mode, contain, d, per_dim, step) ==
  IF step.exit = "return" THEN Returns(Fin(0))
  ELSE IF step.exit = "raise" THEN Raises("NotImplementedError")
  ELSE MembershipFrom(node, x, mode, contain, d + 1, per_dim \o step.append)
MembershipFrom(node, x, mode, contain, d, per_dim) ==
  IF d > Len(x)
  THEN (IF mode = "fuzzy" THEN Returns(AbsF(PyMin(Head(per_dim), Tail(per_dim))))
        ELSE Returns(Fin(1)))
  ELSE AfterStep(node, x, mode, contain, d, per_dim, DimStep(node, x[d], d, mode, contain))
membership(node, x, mode, contain) == MembershipFrom(node, x, mode, contain, 1, <<>>)

\* The components a query is made of: None, the scalars a manual split may
\* use as thresholds, and an interval. contain keeps its default False for a
\* query without an interval, where it is not looked at.
XComponents ==
  {XNone} \cup {XScalar(v) : v \in Thresholds} \cup {XInterval(Fin(0), Rat(1, 2))}
ContainChoices(x) ==
  IF \E d \in Dims : x[d].kind = "interval" THEN BOOLEAN ELSE {FALSE}

\* A wider finite maximal bounding box, with room around the samples.
WideBB == [d \in Dims |-> <<Fin(-1), Fin(MaxVal + 1)>>]

\* A dataset whose rows come in a fixed order (membership does not look at
\* the order of the rows), and one node built on it: Node(source) without
\* samples or Node(source, sorted_indices=source.all_sorted_indices), with the
\* default bb_max or a finite one.
RowLeq(a, b) == a[1] < b[1] \/ (a[1] = b[1] /\ a[2] <= b[2])
InitMember ==
  /\ InitSource
  /\ split_dims = <<1, 2>> /\ eval_dims = <<1, 2>>
  /\ \A i \in 1..(NumSamples - 1) : RowLeq(data[i], data[i + 1])
  /\ nodes \in {Root(si, bb) : si \in {None, all_sorted_indices},
                               bb \in {BBNone, BBList(FiniteBB), BBList(WideBB)}}
  /\ pc = "member"
  /\ args = NoCall /\ stack = <<>> /\ queue = <<>> /\ num_leaves = 0 /\ rnodes = NoTree
  /\ ret = NoCall

\* One call of membership on the node; the run ends with its answer.
Membership(n, x, mode, contain) ==
  /\ pc = "member"
  /\ \E r \in {membership(nodes[n], x, mode, contain)} :
       ret' = [call |-> "membership", node |-> n, x |-> x, mode |-> mode,
               contain |-> contain, value |-> r.value, raises |-> r.raises]
  /\ pc' = "asked"
  /\ UNCHANGED <<source, nodes, args, stack, queue, num_leaves, rnodes>>

NextMember ==
  /\ pc = "member"
  /\ \E n \in DOMAIN nodes, x \in [Dims -> XComponents], mode \in Modes :
       \E contain \in ContainChoices(x) : Membership(n, <<x[1], x[2]>>, mode, contain)

SpecMember == InitMember /\ [][NextMember]_vars

\* -------------------------------------------------------------- properties
HasBoth(t, n) == t[n].left # NoNode /\ t[n].right # NoNode
IsPartition(t, n) ==
  /\ SampleSet(t[t[n].left]) \cap SampleSet(t[t[n].right]) = {}
  /\ SampleSet(t[t[n].left]) \cup SampleSet(t[t[n].right]) = SampleSet(t[n])
  /\ t[t[n].left].num_samples + t[t[n].right].num_samples = t[n].num_samples

\* C1: after any sequence of greedy (plain or one-sided) and manual splits,
\* every non-leaf node, that is every node with split_dim set, has a left and
\* a right child whose sample sets are disjoint and together the node's own,
\* and whose sample counts add up to the node's.
C1_Partition ==
  \A n \in DOMAIN nodes :
    nodes[n].split_dim # NoDim => HasBoth(nodes, n) /\ IsPartition(nodes, n)

\* Node n of tree t admits a split: the plain-mode search finds one of
\* positive quality.
HasPositive(splits) == splits # <<>> /\ Accepted(BestSplit(splits).qual)
Admits(t, n) == HasPositive(find_greedy_splits(t[n], split_dims))

\* C2: tree_best_first with max_num_leaves = k returns a tree; the tree has
\* at most k leaves, and fewer than k only when none of its leaves admits a
\* split of positive quality (so exactly k when the splits exist).
C2_BestFirstLeafCount ==
  (args.call = "tree_best_first" /\ pc \notin {"best_first"}) =>
    /\ pc = "done"
    /\ Cardinality(Leaves(nodes)) <= args.max_num_leaves
    /\ \/ Cardinality(Leaves(nodes)) = args.max_num_leaves
       \/ \A n \in Leaves(nodes) : ~Admits(nodes, n)

\* C3: replaying the recorded directives of a tree grown by tree_depth_first
\* or tree_best_first, on all samples or on a subset, through tree_from_dict
\* raises nothing and gives a tree with the same nodes, each with the same
\* sample set, bb_min and bb_max as in the grown tree.
C3_ReplayReproduces ==
  (/\ args.call = "tree_from_dict"
   /\ args.grown.call \in {"tree_depth_first", "tree_best_first"}
   /\ pc # "from_dict") =>
    /\ pc = "replayed"
    /\ DOMAIN rnodes = DOMAIN nodes
    /\ \A n \in DOMAIN rnodes \cap DOMAIN nodes :
         /\ SampleSet(rnodes[n]) = SampleSet(nodes[n])
         /\ rnodes[n].bb_min = nodes[n].bb_min
         /\ rnodes[n].bb_max = nodes[n].bb_max

\* The last call was a greedy split that accepted a split (its best split has
\* positive quality), and the halves of the node's samples it split into.
AcceptedGreedy == ret.call \in {"greedy", "one_sided"} /\ ret.outcome # "False"
AcceptedPlain == ret.call = "greedy" /\ ret.outcome # "False"
Halves == split_sorted_indices(nodes[ret.node].sorted_indices, ret.split_dim, ret.split_point)
LastLeft == Halves[1][ret.split_dim][Len(Halves[1][ret.split_dim])]
FirstRight == Halves[2][ret.split_dim][1]

\* C4: a split accepted by _do_greedy_split has as threshold the midpoint of
\* the last left-side and the first right-side value along split_dim; the
\* threshold equals no sample's value along split_dim, every left-side sample
\* lies strictly below it and every right-side sample strictly above.
C4_ThresholdBetweenSamples ==
  AcceptedGreedy =>
    /\ nodes[ret.node].split_dim = ret.split_dim
    /\ nodes[ret.node].split_threshold =
         Rat(data[LastLeft][ret.split_dim] + data[FirstRight][ret.split_dim], 2)
    /\ \A i \in SampleSet(nodes[ret.node]) :
         Fin(data[i][ret.split_dim]) # nodes[ret.node].split_threshold
    /\ \A i \in Range(Halves[1][ret.split_dim]) :
         Lt(Fin(data[i][ret.split_dim]), nodes[ret.node].split_threshold)
    /\ \A i \in Range(Halves[2][ret.split_dim]) :
         Gt(Fin(data[i][ret.split_dim]), nodes[ret.node].split_threshold)

\* The candidates of a plain-mode search at node n that reach the largest
\* quality, as pairs <<dimension, split index>>.
Candidates(n) ==
  {c \in Range(split_dims) \X (1..(nodes[n].num_samples - 1)) :
     HasVariance(nodes[n], c[1])}
QualityAt(n, c) == SplitQuality(nodes[n], c[1])[c[2] + 1]
BestCandidates(n) ==
  {c \in Candidates(n) : \A o \in Candidates(n) : Le(QualityAt(n, o), QualityAt(n, c))}
LexLeq(a, b) == a[1] < b[1] \/ (a[1] = b[1] /\ a[2] <= b[2])

\* C5: of the candidate (dimension, split index) pairs of largest quality, a
\* plain-mode greedy split takes the one of lowest dimension index and, in
\* that dimension, lowest split index, whatever the order of split_dims.
C5_LowestDimThenLowestIndex ==
  AcceptedPlain =>
    /\ nodes[ret.node].split_dim = ret.split_dim
    /\ <<ret.split_dim, ret.split_point>> \in BestCandidates(ret.node)
    /\ \A c \in BestCandidates(ret.node) : LexLeq(<<ret.split_dim, ret.split_point>>, c)

\* C6: tree_depth_first with max_depth = m never splits a node at depth >= m:
\* every node lies at depth <= m, a node at depth m has no split_dim and no
\* children, with m = 0 the root is a leaf without children or split_dim, and
\* _recurse is entered for a node other than the root only after the split of
\* its parent succeeded.
C6_DepthBound ==
  args.call = "tree_depth_first" =>
    /\ \A n \in DOMAIN nodes :
         /\ Depth(n) <= args.max_depth
         /\ Depth(n) >= args.max_depth => IsLeaf(nodes, n) /\ nodes[n].split_dim = NoDim
    /\ args.max_depth = 0 =>
         /\ DOMAIN nodes = {1}
         /\ nodes[1].left = NoNode /\ nodes[1].right = NoNode
         /\ nodes[1].split_dim = NoDim
    /\ \A f \in DOMAIN stack :
         stack[f][1] \notin {NoNode, 1} =>
           /\ stack[f][1] \in DOMAIN nodes
           /\ nodes[stack[f][1] \div 2].split_dim # NoDim
           /\ stack[f][2] = Depth(stack[f][1])

\* tree_depth_first has returned a tree of max_depth 0 whose root could have
\* been split.
C6_Witness ==
  /\ pc = "done" /\ args.call = "tree_depth_first"
  /\ args.max_depth = 0 /\ ~args.one_sided
  /\ Admits(nodes, 1)

C8_ManualSplitGuard ==
  [][ret'.call = "manual" =>
       LET n == ret'.node
           d == ret'.split_dim
           thr == ret'.split_threshold
           inside == Le(nodes[n].bb_max[d][1], thr) /\ Le(thr, nodes[n].bb_max[d][2])
       IN  /\ ret'.outcome = "True" =>
                /\ inside
                /\ nodes'[n].split_dim = d
                /\ nodes'[n].split_threshold = thr
                /\ HasBoth(nodes', n)
           /\ ~inside => ret'.outcome = "False" /\ nodes' = nodes]_vars

\* A manual split refused for a threshold above the node's finite bb_max, on
\* a node that an earlier call had given a split_dim.
C8_Witness ==
  /\ ret.call = "manual" /\ ret.outcome = "False"
  /\ Gt(ret.split_threshold, nodes[ret.node].bb_max[ret.split_dim][2])
  /\ nodes[ret.node].split_dim # NoDim

\* The last call was membership with a query of scalars only, or of scalars
\* and None.
Asked == ret.call = "membership"
AskedScalars == Asked /\ \A d \in Dims : ret.x[d].kind = "scalar"
AskedFuzzy ==
  Asked /\ ret.mode = "fuzzy" /\ \A d \in Dims : ret.x[d].kind \in {"scalar", "None"}

\* C9: on a node without samples, membership of a query of scalars returns 0
\* and raises nothing, in each of the modes mean, min, max and fuzzy.
C9_EmptyNodeNoMatch ==
  (AskedScalars /\ nodes[ret.node].num_samples = 0) =>
    ret.raises = "" /\ ret.value = Fin(0)

\* The fuzzy degree of the spec for one dimension, where the bounds it uses
\* are finite.
Outside(node, d, xd) ==
  xd.kind = "scalar" /\ (Lt(xd.lo, node.bb_max[d][1]) \/ Gt(xd.lo, node.bb_max[d][2]))
Degree(node, d, xd) ==
  IF xd.kind = "None" THEN Fin(1)
  ELSE IF Ge(xd.lo, node.bb_min[d][1]) /\ Le(xd.lo, node.bb_min[d][2]) THEN Fin(1)
  ELSE IF Lt(xd.lo, node.bb_min[d][1])
       THEN Div(Sub(xd.lo, node.bb_max[d][1]), Sub(node.bb_min[d][1], node.bb_max[d][1]))
       ELSE Div(Sub(node.bb_max[d][2], xd.lo), Sub(node.bb_max[d][2], node.bb_min[d][2]))
AllFinite(node) ==
  node.num_samples > 0 /\ \A d \in Dims : IsFin(node.bb_max[d][1]) /\ IsFin(node.bb_max[d][2])

\* C10: in fuzzy mode, for a query of None and scalars, membership returns 0
\* if a scalar lies strictly outside bb_max in its dimension; otherwise the
\* least of the per-dimension degrees (1 for None and inside bb_min, the
\* linear interpolation between bb_max and bb_min otherwise); the result lies
\* in [0, 1], also where a bb_max bound is infinite.
C10_FuzzyMembership ==
  (AskedFuzzy /\ nodes[ret.node].num_samples > 0) =>
    /\ ret.raises = ""
    /\ (\E d \in Dims : Outside(nodes[ret.node], d, ret.x[d])) => ret.value = Fin(0)
    /\ Ge(ret.value, Fin(0)) /\ Le(ret.value, Fin(1))
    /\ (AllFinite(nodes[ret.node]) /\ \A d \in Dims : ~Outside(nodes[ret.node], d, ret.x[d])) =>
         \E d \in Dims :
           /\ ret.value = Degree(nodes[ret.node], d, ret.x[d])
           /\ \A e \in Dims : Le(ret.value, Degree(nodes[ret.node], e, ret.x[e]))

\* The variance sum of evaluation dimension d over the rows of idx, computed
\* from the rows themselves (0 for no row).
DirectVarSum(idx, d) == IF Len(idx) > 0 THEN VarSumOf(idx, d) ELSE Fin(0)
FirstRows(node, split_dim, i) == SubSeq(node.sorted_indices[split_dim], 1, i)
OtherRows(node, split_dim, i) ==
  SubSeq(node.sorted_indices[split_dim], i + 1, node.num_samples)

\* What _eval_splits_one_dim stores at index i for a node along split_dim
\* matches the direct variance sums of the first i and the other samples.
MatchesDirect(node, split_dim, stored, i) ==
  \A e \in DOMAIN eval_dims :
    /\ stored[i + 1].var_sum[1][e] = DirectVarSum(FirstRows(node, split_dim, i), eval_dims[e])
    /\ stored[i + 1].var_sum[2][e] = DirectVarSum(OtherRows(node, split_dim, i), eval_dims[e])
AllMatchDirect(node, split_dim) ==
  \A i \in 0..(node.num_samples - 1) :
    MatchesDirect(node, split_dim,
                  eval_splits_one_dim(node, split_dim, node.num_samples - 1), i)

\* C11: for every node, every splitting dimension and every split point i in
\* 1..n-1, the left and right variance sums that _eval_splits_one_dim stores
\* at index i equal the variance sums computed directly from the first i and
\* from the other n-i samples in the split dimension's order; index 0 holds
\* an empty left aggregate (0) and the node's own variance sums on the right.
C11_IncrementalMatchesDirect ==
  \A n \in DOMAIN nodes : nodes[n].num_samples > 0 =>
    \A split_dim \in Dims :
      /\ AllMatchDirect(nodes[n], split_dim)
      /\ \A e \in DOMAIN eval_dims :
           /\ eval_splits_one_dim(nodes[n], split_dim, 0)[1].var_sum[1][e] = Fin(0)
           /\ eval_splits_one_dim(nodes[n], split_dim, 0)[1].var_sum[2][e] =
                nodes[n].var_sum[eval_dims[e]]

\* A greedy split has searched a node of NumSamples samples along a dimension
\* in whose order an evaluation dimension has, at one split point, variance
\* left on the left side and, at an earlier one, variance left on the right.
C11_Witness ==
  /\ ret.call = "greedy"
  /\ nodes[ret.node].num_samples = NumSamples
  /\ \E split_dim \in Range(split_dims), e \in DOMAIN eval_dims :
       /\ HasVariance(nodes[ret.node], split_dim)
       /\ Gt(eval_splits_one_dim(nodes[ret.node], split_dim, 2)[3].var_sum[1][e], Fin(0))
       /\ Gt(eval_splits_one_dim(nodes[ret.node], split_dim, 1)[2].var_sum[2][e], Fin(0))

\* The nodes in a queue of tree_best_first, and the entries of a node in it.
QueueNodes(q) == {q[i].node : i \in DOMAIN q}
EntriesOf(q, n) == {i \in DOMAIN q : q[i].node = n}

\* The node just attempted was in the queue with the largest priority there,
\* and its priority is its scaled variance sum along eval_dims.
AttemptedIsMax(q, t, n) ==
  /\ EntriesOf(q, n) # {}
  /\ \A i \in EntriesOf(q, n) :
       /\ q[i].priority = Priority(t[n])
       /\ \A j \in DOMAIN q : Le(q[j].priority, q[i].priority)

\* C12: every iteration of tree_best_first's loop runs while the leaf count
\* is below max_num_leaves and the queue is not empty, attempts the split of
\* a node of largest priority in the queue, and ends in success or failure:
\* on success the node's two new children, and nothing else, join the queue
\* and the leaf count grows by one; on failure the node leaves the queue for
\* good and the count stays; the loop is left only when the leaf count has
\* reached max_num_leaves or the queue is empty.
C12_BestFirstIteration ==
  [][pc = "best_first" =>
       IF pc' = "done"
       THEN num_leaves >= args.max_num_leaves \/ queue = <<>>
       ELSE /\ num_leaves < args.max_num_leaves /\ queue # <<>>
            /\ AttemptedIsMax(queue, nodes, ret'.node)
            /\ ret'.outcome \in {"True", "False"}
            /\ ret'.outcome = "True" =>
                 /\ HasBoth(nodes', ret'.node)
                 /\ QueueNodes(queue') =
                      (QueueNodes(queue) \ {ret'.node}) \cup
                        {nodes'[ret'.node].left, nodes'[ret'.node].right}
                 /\ Len(queue') = Len(queue) + 1
                 /\ num_leaves' = num_leaves + 1
            /\ ret'.outcome = "False" =>
                 /\ QueueNodes(queue') = QueueNodes(queue) \ {ret'.node}
                 /\ Len(queue') = Len(queue) - 1
                 /\ num_leaves' = num_leaves
                 /\ nodes' = nodes]_vars

\* The node has nothing a plain-mode search could split: fewer than two
\* samples, or no variance along any of split_dims.
Unsplittable(node) ==
  node.num_samples <= 1 \/ \A d \in Range(split_dims) : ~HasVariance(node, d)
Unsplit(node) ==
  /\ node.split_dim = NoDim /\ node.split_threshold = None
  /\ node.left = NoNode /\ node.right = NoNode

\* C13: a plain-mode greedy split that is accepted has its split index in
\* 1..n-1, so each of the two halves it hands to the children holds a sample;
\* on a node with 0 or 1 samples, or without variance along every dimension
\* of split_dims, the call returns False and leaves split_dim,
\* split_threshold, left and right unset.
C13_SplitIndexInRange ==
  ret.call = "greedy" =>
    /\ ret.outcome # "False" =>
         /\ ret.split_point \in 1..(nodes[ret.node].num_samples - 1)
         /\ \A d \in Dims : Len(Halves[1][d]) >= 1 /\ Len(Halves[2][d]) >= 1
         /\ Len(Halves[1][1]) + Len(Halves[2][1]) = nodes[ret.node].num_samples
    /\ Unsplittable(nodes[ret.node]) =>
         ret.outcome = "False" /\ Unsplit(nodes[ret.node])
    /\ \A n \in DOMAIN nodes : n # 1 => nodes[n].num_samples >= 1

\* A plain-mode greedy split has been accepted on a node of NumSamples
\* samples, at the last split index.
C13_Witness ==
  /\ ret.call = "greedy" /\ ret.outcome # "False"
  /\ nodes[ret.node].num_samples = NumSamples
  /\ ret.split_point = NumSamples - 1

====
